---- MODULE Spec2Model ----
(***************************************************************************)
(* A state-machine model of js/wheel-picker.js (WheelPicker): the selector *)
(* column created by createWheelColumn, the date/time picker card built by *)
(* create(), and the module-level close()/handleOutsideClick lifecycle.    *)
(*                                                                         *)
(* Numbers.  Pointer coordinates are whole pixels.  Offsets and velocities *)
(* are JavaScript doubles in the source; here they are fixed-point         *)
(* integers counting 1/Unit of a pixel, and a product with 0.3 or 0.92 is  *)
(* rounded to the nearest 1/Unit.                                          *)
(*                                                                         *)
(* Strings.  A display string is the sequence of its decimal digits, so    *)
(* String(i), padStart(2,'0'), parseInt and indexOf are computed, not      *)
(* assumed.                                                                *)
(***************************************************************************)
EXTENDS Integers, Sequences, FiniteSets, TLC

VARIABLES
    cols,            \* column id -> the closure state of one createWheelColumn
    pickers,         \* picker id -> the closure state of one create() call
    activePickerEl,  \* module variable activePickerEl: a picker id, or 0 for null
    timers,          \* pending setTimeout callbacks
    docClick,        \* handleOutsideClick is registered on document
    diary_settings,  \* localStorage item 'diary_settings'
    diary_data,      \* localStorage item 'diary_data': the birth date DiaryStorage keeps in it
    now,             \* the clock: what new Date() returns
    calls,           \* callbacks invoked by the last step, in order
    lastOp,          \* the last step taken and its inputs
    released,        \* the drags the last pointer release ended, while no other input came
    events           \* how many input events and API calls have been delivered

vars == <<cols, pickers, activePickerEl, timers, docClick, diary_settings, diary_data, now, calls,
          lastOp, released, events>>

----------------------------------------------------------------------------
(* Constants of the source and bounds of the model *)

ITEM_HEIGHT == 36

\* fixed-point resolution: offsets and velocities count 1/Unit px
Unit == 1000

\* longest item list of a stand-alone column
MaxItems == 3

\* how many pickers one behaviour opens
MaxPickers == 2

\* how far from the selected row a clicked row may be
ClickReach == 2

\* clientY values a pointer event may carry (whole pixels)
ClientYs == {0, 3, 60}

\* how many input events and API calls one behaviour delivers (animation frames
\* and timers are not counted: they run until none is pending)
MaxEvents == 4

Max(a, b) == IF a >= b THEN a ELSE b
Min(a, b) == IF a <= b THEN a ELSE b
Abs(a) == IF a < 0 THEN -a ELSE a

\* the nearest integer to a/b (b > 0), halves towards +infinity
RoundDiv(a, b) == (2 * a + b) \div (2 * b)

\* x * num/den in fixed point: the nearest 1/Unit, symmetric in sign
Scale(x, num, den) == IF x >= 0 THEN RoundDiv(x * num, den) ELSE -RoundDiv((-x) * num, den)

----------------------------------------------------------------------------
(* Strings as digit sequences *)

\* items[i] for an index outside the array
Undefined == <<-1>>

RECURSIVE Digits(_)
Digits(i) == IF i < 10 THEN <<i>> ELSE Append(Digits(i \div 10), i % 10)

\* String(i), i >= 0
Str(i) == Digits(i)

\* s.padStart(2, '0')
PadStart2(s) == IF Len(s) < 2 THEN <<0>> \o s ELSE s

RECURSIVE ParseDigits(_, _)
ParseDigits(s, acc) == IF s = <<>> THEN acc ELSE ParseDigits(Tail(s), 10 * acc + Head(s))

\* parseInt(s) of a digit string
parseInt(s) == ParseDigits(s, 0)

\* range(start, end, padZero)
RECURSIVE range(_, _, _)
range(start, end, padZero) ==
    IF start > end THEN <<>>
    ELSE <<(IF padZero THEN PadStart2(Str(start)) ELSE Str(start))>> \o range(start + 1, end, padZero)

\* arr.indexOf(s): 0-based, -1 when absent
indexOf(arr, s) ==
    IF \E k \in 1..Len(arr) : arr[k] = s
    THEN (CHOOSE k \in 1..Len(arr) : arr[k] = s /\ \A j \in 1..(k - 1) : arr[j] # s) - 1
    ELSE -1

\* items[index] with a 0-based index
itemAt(items, index) == IF index >= 0 /\ index < Len(items) THEN items[index + 1] ELSE Undefined

----------------------------------------------------------------------------
(* The selector column, createWheelColumn *)

\* the closure variables of a new column, after setPosition(selectedIndex, false)
NewColumn(items, selectedIndex, owner, role) ==
    [ items        |-> items,
      currentIndex |-> selectedIndex,
      startY       |-> 0,
      currentY     |-> -selectedIndex * ITEM_HEIGHT * Unit,
      lastY        |-> 0,
      velocity     |-> 0,
      isDragging   |-> FALSE,
      animationId  |-> FALSE,       \* TRUE: holds a frame handle (possibly of a frame already run)
      framePending |-> FALSE,       \* the requested inertiaScroll frame has not run yet
      animate      |-> FALSE,       \* wheel.style.transition is the 250ms ease-out
      docListeners |-> TRUE,        \* document mousemove/mouseup listeners attached
      owner        |-> owner,       \* picker id, 0 for a stand-alone column
      role         |-> role ]

\* setPosition that sets the transition and leaves the offset where it was
setPositionKeepsOffset(col, index, animate) == [col EXCEPT !.animate = animate]

\* setPosition(index, animate)
setPosition(col, index, animate) ==
    [col EXCEPT !.animate = animate, !.currentY = -index * ITEM_HEIGHT * Unit]

\* getIndexFromPosition(y) = Math.round(-y / ITEM_HEIGHT)
getIndexFromPosition(y) == RoundDiv(-y, ITEM_HEIGHT * Unit)

\* getValue() and getIndex() of column._api
getValue(col) == itemAt(col.items, col.currentIndex)
getIndex(col) == col.currentIndex

\* handleStart that leaves a pending animation frame alone
handleStartKeepsFrame(col, y) ==
    [col EXCEPT !.isDragging = TRUE,
                !.startY = y * Unit - col.currentY,
                !.lastY = y * Unit,
                !.velocity = 0,
                !.animate = FALSE]

\* handleStart(e) with e.clientY = y
handleStart(col, y) ==
    [col EXCEPT !.isDragging = TRUE,
                !.framePending = IF col.animationId THEN FALSE ELSE col.framePending,
                !.animationId = FALSE,
                !.startY = y * Unit - col.currentY,
                !.lastY = y * Unit,
                !.velocity = 0,
                !.animate = FALSE]

\* handleMove(e) with e.clientY = y
handleMove(col, y) ==
    IF ~col.isDragging THEN col
    ELSE LET newY == y * Unit - col.startY
             minY == -(Len(col.items) - 1) * ITEM_HEIGHT * Unit
             maxY == 0
             dampedY == IF newY > maxY THEN maxY + Scale(newY - maxY, 3, 10)
                        ELSE IF newY < minY THEN minY + Scale(newY - minY, 3, 10)
                        ELSE newY
         IN [col EXCEPT !.velocity = y * Unit - col.lastY,
                        !.lastY = y * Unit,
                        !.currentY = dampedY]

----------------------------------------------------------------------------
(* JavaScript Date arithmetic on [y, mon, d] (mon is getMonth(), 0..11) *)

IsLeap(y) == (y % 4 = 0 /\ y % 100 # 0) \/ y % 400 = 0

\* the length of month index mon (0..11) of year y
MonthLength(y, mon) ==
    IF mon = 1 THEN (IF IsLeap(y) THEN 29 ELSE 28)
    ELSE IF mon \in {3, 5, 8, 10} THEN 30 ELSE 31

\* getDaysInMonth(year, month) = new Date(year, month, 0).getDate(), month 1..12:
\* day 0 of month index `month` is the last day of month index month-1
getDaysInMonth(year, month) == MonthLength(year, month - 1)

\* new Date(y, mon, d) for mon in 0..11 and 1 <= d <= 31: a day past the end of
\* the month rolls over into the next month
MakeDate(y, mon, d) ==
    IF d <= MonthLength(y, mon) THEN [y |-> y, mon |-> mon, d |-> d]
    ELSE [y |-> y, mon |-> mon + 1, d |-> d - MonthLength(y, mon)]

setFullYear(date, y) == MakeDate(y, date.mon, date.d)
setMonth(date, mon) == MakeDate(date.y, mon, date.d)
setDate(date, d) == MakeDate(date.y, date.mon, d)

----------------------------------------------------------------------------
(* Range provider *)

\* getYearRange(): birthYear is 2000 unless localStorage 'diary_settings' parses as
\* JSON with a truthy birthday; settings is the stored item, clock what new Date()
\* returns.  The kinds of stored item: "absent" (getItem returns null), "invalid"
\* (JSON.parse throws), "nobirthday" (JSON without the field), "birthday" (a date
\* string of that year) and "unparseable" (a string new Date() cannot read: the
\* year is NaN, and the loop of range, whose test i <= end is false, pushes nothing)
getYearRange(settings, clock) ==
    LET birthYear == IF settings.kind = "birthday" THEN settings.year ELSE 2000
    IN IF settings.kind = "unparseable" THEN <<>>
       ELSE range(birthYear, clock.y + 1, FALSE)

----------------------------------------------------------------------------
(* Operations that may call back.  They act on a world W: the columns, the *)
(* pickers, activePickerEl, the timers, the document click listener, and   *)
(* the callbacks invoked so far by the running handler.                    *)

World ==
    [ cols |-> cols, pickers |-> pickers, active |-> activePickerEl,
      timers |-> timers, docClick |-> docClick, calls |-> <<>> ]

Call(W, fn, who, idx, val) ==
    [W EXCEPT !.calls = Append(@, [fn |-> fn, who |-> who, idx |-> idx, val |-> val])]

\* an assignment to, or a mutation of, currentValue of picker p; while currentValue
\* is the object the caller passed as options.value, the caller's object changes too
setCurrentValue(W, p, v) ==
    [W EXCEPT !.pickers[p].currentValue = v,
              !.pickers[p].value = IF W.pickers[p].aliased THEN v ELSE @]

RECURSIVE scrollToIndex(_, _, _, _)

\* setItems that keeps the committed index instead of taking the preferred one
setItemsKeepsIndex(W, c, newItems, newIndex) ==
    scrollToIndex([W EXCEPT !.cols[c].items = newItems], c, W.cols[c].currentIndex, FALSE)

\* setItems that also ends a drag in progress
setItemsEndsDrag(W, c, newItems, newIndex) ==
    scrollToIndex([W EXCEPT !.cols[c].items = newItems, !.cols[c].isDragging = FALSE], c,
                  Min(newIndex, Len(newItems) - 1), FALSE)

\* column._api.setItems(newItems, newIndex)
setItems(W, c, newItems, newIndex) ==
    scrollToIndex([W EXCEPT !.cols[c].items = newItems], c,
                  Min(newIndex, Len(newItems) - 1), FALSE)

\* updateDayColumn that selects the last day of the month instead of keeping the day
updateDayColumnSelectsLast(W, p) ==
    LET cv == W.pickers[p].currentValue
        daysInMonth == getDaysInMonth(cv.y, cv.mon + 1)
    IN setItems(setCurrentValue(W, p, setDate(cv, daysInMonth)),
                W.pickers[p].columns[3], range(1, daysInMonth, FALSE), daysInMonth - 1)

\* updateDayColumn() of date picker p
updateDayColumn(W, p) ==
    LET cv == W.pickers[p].currentValue
        daysInMonth == getDaysInMonth(cv.y, cv.mon + 1)
        currentDay == Min(cv.d, daysInMonth)
    IN setItems(setCurrentValue(W, p, setDate(cv, currentDay)),
                W.pickers[p].columns[3], range(1, daysInMonth, FALSE), currentDay - 1)

\* options.onChange of picker p, called with a copy of currentValue
pickerOnChange(W, p) == Call(W, "onChange", p, 0, W.pickers[p].currentValue)

\* the onChange option of column c, called by scrollToIndex with (index, items[index])
onChange(W, c, idx, val) ==
    LET role == W.cols[c].role
        p == W.cols[c].owner
        W0 == Call(W, "colChange", c, idx, val)
        cv == W.pickers[p].currentValue
    IN CASE role = "plain" -> W0
         [] role = "year" ->
              pickerOnChange(updateDayColumn(setCurrentValue(W0, p, setFullYear(cv, parseInt(val))), p), p)
         [] role = "month" ->
              pickerOnChange(updateDayColumn(setCurrentValue(W0, p, setMonth(cv, parseInt(val) - 1)), p), p)
         [] role = "day" ->
              pickerOnChange(setCurrentValue(W0, p, setDate(cv, parseInt(val))), p)
         [] role = "hour" ->
              pickerOnChange(setCurrentValue(W0, p, [cv EXCEPT !.hour = parseInt(val)]), p)
         [] role = "minute" ->
              pickerOnChange(setCurrentValue(W0, p, [cv EXCEPT !.minute = parseInt(val)]), p)

\* scrollToIndex without the upper bound of the clamp
scrollToIndexNoUpperClamp(W, c, index, animate) ==
    LET col == W.cols[c]
        idx == Max(0, index)
        W1 == IF idx # col.currentIndex
              THEN onChange([W EXCEPT !.cols[c].currentIndex = idx], c, idx, itemAt(col.items, idx))
              ELSE W
    IN [W1 EXCEPT !.cols[c] = setPosition(@, idx, animate)]

\* scrollToIndex without the lower bound of the clamp
scrollToIndexNoLowerClamp(W, c, index, animate) ==
    LET col == W.cols[c]
        idx == Min(Len(col.items) - 1, index)
        W1 == IF idx # col.currentIndex
              THEN onChange([W EXCEPT !.cols[c].currentIndex = idx], c, idx, itemAt(col.items, idx))
              ELSE W
    IN [W1 EXCEPT !.cols[c] = setPosition(@, idx, animate)]

\* scrollToIndex that notifies whether or not the index changed
scrollToIndexAlwaysNotifies(W, c, index, animate) ==
    LET col == W.cols[c]
        idx == Max(0, Min(Len(col.items) - 1, index))
        W1 == onChange([W EXCEPT !.cols[c].currentIndex = idx], c, idx, itemAt(col.items, idx))
    IN [W1 EXCEPT !.cols[c] = setPosition(@, idx, animate)]

\* scrollToIndex that wraps an index past either end round to the other end
scrollToIndexWraps(W, c, index, animate) ==
    LET col == W.cols[c]
        idx == index % Len(col.items)
        W1 == IF idx # col.currentIndex
              THEN onChange([W EXCEPT !.cols[c].currentIndex = idx], c, idx, itemAt(col.items, idx))
              ELSE W
    IN [W1 EXCEPT !.cols[c] = setPosition(@, idx, animate)]

\* scrollToIndex(index, animate) of column c
scrollToIndex(W, c, index, animate) ==
    LET col == W.cols[c]
        idx == Max(0, Min(Len(col.items) - 1, index))
        W1 == IF idx # col.currentIndex
              THEN onChange([W EXCEPT !.cols[c].currentIndex = idx], c, idx, itemAt(col.items, idx))
              ELSE W
    IN [W1 EXCEPT !.cols[c] = setPosition(@, idx, animate)]

\* inertiaScroll without friction: the velocity does not decay
inertiaScrollNoFriction(W, c) ==
    LET col == W.cols[c]
        v == col.velocity
        y == col.currentY + v
        minY == -(Len(col.items) - 1) * ITEM_HEIGHT * Unit
        maxY == 0
        W1 == [W EXCEPT !.cols[c].velocity = v, !.cols[c].currentY = y]
    IN IF y > maxY \/ y < minY \/ 2 * Abs(v) < Unit
       THEN scrollToIndex(W1, c, getIndexFromPosition(y), TRUE)
       ELSE [W1 EXCEPT !.cols[c].animationId = TRUE, !.cols[c].framePending = TRUE]

\* inertiaScroll(): one step of the inertia loop of column c
inertiaScroll(W, c) ==
    LET col == W.cols[c]
        v == Scale(col.velocity, 92, 100)
        y == col.currentY + v
        minY == -(Len(col.items) - 1) * ITEM_HEIGHT * Unit
        maxY == 0
        W1 == [W EXCEPT !.cols[c].velocity = v, !.cols[c].currentY = y]
    IN IF y > maxY \/ y < minY \/ 2 * Abs(v) < Unit
       THEN scrollToIndex(W1, c, getIndexFromPosition(y), TRUE)
       ELSE [W1 EXCEPT !.cols[c].animationId = TRUE, !.cols[c].framePending = TRUE]

\* handleEnd() of column c
handleEnd(W, c) ==
    LET col == W.cols[c]
        W1 == [W EXCEPT !.cols[c].isDragging = FALSE]
    IN IF ~col.isDragging THEN W
       ELSE IF Abs(col.velocity) > 2 * Unit THEN inertiaScroll(W1, c)
       ELSE scrollToIndex(W1, c, getIndexFromPosition(col.currentY), TRUE)

\* destroy that toggles the document listeners instead of removing them
destroyToggles(col) ==
    [col EXCEPT !.docListeners = ~col.docListeners,
                !.framePending = IF col.animationId THEN FALSE ELSE col.framePending]

\* column._api.destroy()
destroy(col) ==
    [col EXCEPT !.docListeners = FALSE,
                !.framePending = IF col.animationId THEN FALSE ELSE col.framePending]

----------------------------------------------------------------------------
(* The picker card: create(), close(), handleOutsideClick() *)

\* close that confirms the picker it closes
closeConfirms(W) ==
    LET W1 == IF W.active # 0
              THEN [Call(W, "onConfirm", W.active, 0, W.pickers[W.active].currentValue)
                       EXCEPT !.timers = Append(@, [kind |-> "remove", pk |-> W.active]),
                              !.active = 0]
              ELSE W
    IN [W1 EXCEPT !.docClick = FALSE]

\* close()
close(W) ==
    LET W1 == IF W.active # 0
              THEN [W EXCEPT !.timers = Append(@, [kind |-> "remove", pk |-> W.active]),
                             !.active = 0]
              ELSE W
    IN [W1 EXCEPT !.docClick = FALSE]

\* handleOutsideClick(e), e.target inside the card of picker target (0: in no card)
handleOutsideClick(W, target) ==
    IF W.active # 0 /\ W.active # target THEN close(W) ELSE W

\* a click event reaching document after the target's own listeners have run
bubble(W, target) == IF W.docClick THEN handleOutsideClick(W, target) ELSE W

\* the 200 ms callback of close() for the card of picker p
removeCard(W, p) ==
    IF W.pickers[p].attached
    THEN [W EXCEPT !.cols = [c \in DOMAIN W.cols |->
                                IF W.cols[c].owner = p THEN destroy(W.cols[c]) ELSE W.cols[c]],
                   !.pickers[p].attached = FALSE]
    ELSE W

\* the date part and the time part of what new Date() returns
Today == [y |-> now.y, mon |-> now.mon, d |-> now.d]
TimeNow == [hour |-> now.hour, minute |-> now.minute]

\* create(options): hasValue says whether options.value is a Date (date mode) or
\* truthy (time mode), value is that object
create(W, mode, hasValue, value) ==
    LET W0 == close(W)
        p == Len(W0.pickers) + 1
        base == Len(W0.cols)
        currentValue == IF hasValue THEN value ELSE IF mode = "date" THEN Today ELSE TimeNow
        years == getYearRange(diary_settings, now)
        yearIndex == indexOf(years, Str(currentValue.y))
        newCols ==
            IF mode = "date"
            THEN << NewColumn(years, IF yearIndex >= 0 THEN yearIndex ELSE Len(years) - 1, p, "year"),
                    NewColumn(range(1, 12, FALSE), currentValue.mon, p, "month"),
                    NewColumn(range(1, getDaysInMonth(currentValue.y, currentValue.mon + 1), FALSE),
                              currentValue.d - 1, p, "day") >>
            ELSE << NewColumn(range(0, 23, TRUE), currentValue.hour, p, "hour"),
                    NewColumn(range(0, 59, TRUE), currentValue.minute, p, "minute") >>
        card == [ mode         |-> mode,
                  currentValue |-> currentValue,
                  value        |-> currentValue,   \* the caller's object, when hasValue
                  aliased      |-> hasValue,       \* currentValue is the caller's object
                  columns      |-> [k \in 1..Len(newCols) |-> base + k],
                  attached     |-> TRUE ]
    IN [W0 EXCEPT !.cols = @ \o newCols,
                  !.pickers = Append(@, card),
                  !.active = p,
                  !.timers = Append(@, [kind |-> "listen", pk |-> p])]

\* getValue() of the handle create() returned for picker p
pickerGetValue(p) == pickers[p].currentValue

\* the click handler of quickBtn of picker p
quickClick(W, p) ==
    LET cs == W.pickers[p].columns
    IN IF W.pickers[p].mode = "date"
       THEN LET W1 == [W EXCEPT !.pickers[p].currentValue = Today, !.pickers[p].aliased = FALSE]
                years == getYearRange(diary_settings, now)
                yearIndex == indexOf(years, Str(Today.y))
                W2 == scrollToIndex(W1, cs[1], IF yearIndex >= 0 THEN yearIndex ELSE Len(years) - 1, TRUE)
                \* `now` and currentValue are one object: the callbacks above may have changed it
                W3 == scrollToIndex(W2, cs[2], W2.pickers[p].currentValue.mon, TRUE)
                nw == W3.pickers[p].currentValue
                daysInMonth == getDaysInMonth(nw.y, nw.mon + 1)
            IN pickerOnChange(setItems(W3, cs[3], range(1, daysInMonth, FALSE), nw.d - 1), p)
       ELSE LET W1 == [W EXCEPT !.pickers[p].currentValue = TimeNow, !.pickers[p].aliased = FALSE]
                W2 == scrollToIndex(W1, cs[1], now.hour, TRUE)
                W3 == scrollToIndex(W2, cs[2], now.minute, TRUE)
            IN pickerOnChange(W3, p)

\* the click handler of confirmBtn of picker p
confirmClick(W, p) == close(Call(W, "onConfirm", p, 0, W.pickers[p].currentValue))

----------------------------------------------------------------------------
(* Steps: input events, API calls, animation frames and timers *)

\* the card of column c's picker is in the document (a stand-alone column always is)
InDocument(c) == IF cols[c].owner = 0 THEN TRUE ELSE pickers[cols[c].owner].attached

\* the record of a step: on picker pk (0: none), on column c (0: none), with input
\* arg; from is the committed index of column c before the step
Op(name, pk, c, arg) ==
    [ op |-> name, pk |-> pk, col |-> c, arg |-> arg,
      from |-> IF c = 0 THEN 0 ELSE cols[c].currentIndex ]

\* the columns whose drag the step op ends: handleEnd() runs with isDragging set
Ended(op) ==
    {c \in DOMAIN cols :
        /\ cols[c].isDragging
        /\ \/ op.op = "touchend" /\ op.col = c
           \/ op.op = "mouseup" /\ cols[c].docListeners}

\* the step's effect on the program state
Commit(W, op) ==
    /\ released' = IF op.op \in {"touchend", "mouseup"}
                   THEN {[col |-> c, y |-> cols[c].currentY] : c \in Ended(op)}
                   ELSE IF op.op \in {"frame", "listen", "remove"} THEN released
                   ELSE {}
    /\ cols' = W.cols
    /\ pickers' = W.pickers
    /\ activePickerEl' = W.active
    /\ timers' = W.timers
    /\ docClick' = W.docClick
    /\ calls' = W.calls
    /\ lastOp' = op
    /\ UNCHANGED <<diary_settings, diary_data, now>>

\* an input event or API call: one of the MaxEvents the behaviour delivers
Input ==
    /\ events < MaxEvents
    /\ events' = events + 1

\* touchstart on the viewport of column c
TouchStart(c, y) ==
    /\ InDocument(c)
    /\ Input
    /\ Commit([World EXCEPT !.cols[c] = handleStart(@, y)], Op("touchstart", cols[c].owner, c, y))

\* touchmove on the viewport of column c
TouchMove(c, y) ==
    /\ InDocument(c)
    /\ Input
    /\ Commit([World EXCEPT !.cols[c] = handleMove(@, y)], Op("touchmove", cols[c].owner, c, y))

\* touchend on the viewport of column c
TouchEnd(c) ==
    /\ InDocument(c)
    /\ Input
    /\ Commit(handleEnd(World, c), Op("touchend", cols[c].owner, c, 0))

\* mousedown on the viewport of column c
MouseDown(c, y) ==
    /\ InDocument(c)
    /\ Input
    /\ Commit([World EXCEPT !.cols[c] = handleStart(@, y)], Op("mousedown", cols[c].owner, c, y))

\* mousemove on document: the listener of every column that has not been destroyed
MouseMove(y) ==
    /\ Input
    /\ Commit([World EXCEPT !.cols = [c \in DOMAIN cols |->
                   IF cols[c].docListeners THEN handleMove(cols[c], y) ELSE cols[c]]],
              Op("mousemove", 0, 0, y))

\* the mouseup listeners of columns c, c+1, ... in registration order
RECURSIVE mouseUpFrom(_, _)
mouseUpFrom(W, c) ==
    IF c \notin DOMAIN W.cols THEN W
    ELSE mouseUpFrom(IF W.cols[c].docListeners THEN handleEnd(W, c) ELSE W, c + 1)

\* mouseup on document
MouseUp ==
    /\ Input
    /\ Commit(mouseUpFrom(World, 1), Op("mouseup", 0, 0, 0))

\* the animation frame requested by column c runs
Frame(c) ==
    /\ cols[c].framePending
    /\ UNCHANGED events
    /\ Commit(inertiaScroll([World EXCEPT !.cols[c].framePending = FALSE], c),
              Op("frame", cols[c].owner, c, 0))

\* click on item i of column c, then the click reaches document
ItemClick(c, i) ==
    /\ InDocument(c)
    /\ i \in 0..(Len(cols[c].items) - 1)
    /\ Input
    /\ Commit(bubble(scrollToIndex(World, c, i, TRUE), cols[c].owner), Op("click", cols[c].owner, c, i))

\* wheel on the viewport of column c, d = Math.sign(e.deltaY)
Wheel(c, d) ==
    /\ InDocument(c)
    /\ Input
    /\ Commit(scrollToIndex(World, c, cols[c].currentIndex + d, TRUE), Op("wheel", cols[c].owner, c, d))

\* column._api.setIndex(i, animate)
SetIndex(c, i, animate) ==
    /\ Input
    /\ Commit(scrollToIndex(World, c, i, animate),
              Op(IF animate THEN "setIndexAnimated" ELSE "setIndex", cols[c].owner, c, i))

\* column._api.setItems(newItems, p)
SetItems(c, newItems, p) ==
    /\ Input
    /\ Commit(setItems(World, c, newItems, p), Op("setItems", cols[c].owner, c, p))

\* column._api.destroy(); arg records whether destroy() had been called before
Destroy(c) ==
    /\ Input
    /\ Commit([World EXCEPT !.cols[c] = destroy(@)],
              Op("destroy", cols[c].owner, c, IF cols[c].docListeners THEN 0 ELSE 1))

\* WheelPicker.create / openDatePicker / openTimePicker
Open(mode, hasValue, value) ==
    /\ Len(pickers) < MaxPickers
    /\ Input
    /\ Commit(create(World, mode, hasValue, value), Op("open", Len(pickers) + 1, 0, 0))

\* WheelPicker.close(), which is also close() of every handle
ApiClose ==
    /\ Input
    /\ Commit(close(World), Op("close", activePickerEl, 0, 0))

\* click on the close button of picker p
CloseClick(p) ==
    /\ pickers[p].attached
    /\ Input
    /\ Commit(bubble(close(World), p), Op("closeBtn", p, 0, 0))

\* click on the confirm button of picker p
ConfirmClick(p) ==
    /\ pickers[p].attached
    /\ Input
    /\ Commit(bubble(confirmClick(World, p), p), Op("confirmBtn", p, 0, 0))

\* click on the quick ("today" / "now") button of picker p
QuickClick(p) ==
    /\ pickers[p].attached
    /\ Input
    /\ Commit(bubble(quickClick(World, p), p), Op("quickBtn", p, 0, 0))

\* click somewhere outside every card
OutsideClick ==
    /\ Input
    /\ Commit(bubble(World, 0), Op("outsideClick", activePickerEl, 0, 0))

\* keydown with key 'Escape' on document: create() registers only the click
\* listener, and no keydown listener of the application refers to the picker
EscapeKey ==
    /\ Input
    /\ Commit(World, Op("escape", activePickerEl, 0, 0))

\* DiaryStorage.setBirthDate(birthDate), birthDate a 'YYYY-MM-DD' string of year y:
\* saved in settings.birthDate of the item 'diary_data'
SetBirthDate(y) ==
    /\ Input
    /\ diary_data' = [kind |-> "birthDate", year |-> y]
    /\ lastOp' = Op("setBirthDate", 0, 0, y)
    /\ calls' = <<>>
    /\ released' = {}
    /\ UNCHANGED <<cols, pickers, activePickerEl, timers, docClick, diary_settings, now>>

\* pending timer k fires.  The 10 ms timers of create() fire in the order set; a
\* 200 ms timer of close() fires after every timer set before it
Timer(k) ==
    /\ k \in 1..Len(timers)
    /\ IF timers[k].kind = "listen"
       THEN \A j \in 1..(k - 1) : timers[j].kind # "listen"
       ELSE k = 1
    /\ UNCHANGED events
    /\ LET W == [World EXCEPT !.timers = SubSeq(timers, 1, k - 1) \o SubSeq(timers, k + 1, Len(timers))]
       IN Commit(IF timers[k].kind = "listen"
                 THEN [W EXCEPT !.docClick = TRUE]
                 ELSE removeCard(W, timers[k].pk),
                 Op(timers[k].kind, timers[k].pk, 0, 0))

----------------------------------------------------------------------------
(* SpecCol: one stand-alone column under every input *)

\* the item lists a stand-alone column is given
ItemLists == {range(1, k, FALSE) : k \in 1..MaxItems} \cup {range(0, k - 1, TRUE) : k \in 2..MaxItems}

\* the indices given to setIndex / setItems
Indices == (-1)..MaxItems

NoOp == [op |-> "init", pk |-> 0, col |-> 0, arg |-> 0, from |-> 0]

\* the state before any picker is opened
NoPicker ==
    /\ pickers = <<>>
    /\ activePickerEl = 0
    /\ timers = <<>>
    /\ docClick = FALSE
    /\ calls = <<>>
    /\ lastOp = NoOp
    /\ released = {}
    /\ events = 0

InitCol ==
    /\ \E items \in ItemLists : \E i \in 0..(Len(items) - 1) :
           cols = <<NewColumn(items, i, 0, "plain")>>
    /\ NoPicker
    /\ diary_settings = [kind |-> "absent", year |-> 0]
    /\ diary_data = [kind |-> "absent", year |-> 0]
    /\ now = [y |-> 2024, mon |-> 1, d |-> 29, hour |-> 9, minute |-> 15]

NextCol ==
    \/ \E y \in ClientYs : TouchStart(1, y)
    \/ \E y \in ClientYs : TouchMove(1, y)
    \/ TouchEnd(1)
    \/ \E y \in ClientYs : MouseDown(1, y)
    \/ \E y \in ClientYs : MouseMove(y)
    \/ MouseUp
    \/ Frame(1)
    \/ \E i \in Indices : ItemClick(1, i)
    \/ \E d \in {-1, 0, 1} : Wheel(1, d)
    \/ \E i \in Indices, a \in BOOLEAN : SetIndex(1, i, a)
    \/ \E items \in ItemLists, p \in Indices : SetItems(1, items, p)

SpecCol == InitCol /\ [][NextCol]_vars

----------------------------------------------------------------------------
(* SpecDate: one date picker, opened by create(), under every input *)

\* the world before anything was created
EmptyWorld ==
    [ cols |-> <<>>, pickers |-> <<>>, active |-> 0, timers |-> <<>>,
      docClick |-> FALSE, calls |-> <<>> ]

\* localStorage 'diary_settings': absent, or JSON with a birthday in that year
Settings == {[kind |-> "absent", year |-> 0], [kind |-> "birthday", year |-> 2023]}

\* what new Date() returns
Clocks == {[y |-> 2024, mon |-> 3, d |-> 30, hour |-> 9, minute |-> 15]}

\* the Date objects passed as options.value
DateValues ==
    { [y |-> 2024, mon |-> 1, d |-> 29], [y |-> 2024, mon |-> 0, d |-> 31],
      [y |-> 1999, mon |-> 11, d |-> 31] }

\* the rows of column c a click can land on
Rows(c) ==
    {i \in 0..(Len(cols[c].items) - 1) : Abs(i - cols[c].currentIndex) <= ClickReach}

\* the state after W.create(...) returned, as the first step of the behaviour
Created(W) ==
    /\ cols = W.cols
    /\ pickers = W.pickers
    /\ activePickerEl = W.active
    /\ timers = W.timers
    /\ docClick = W.docClick
    /\ calls = W.calls
    /\ lastOp = [op |-> "open", pk |-> 1, col |-> 0, arg |-> 0, from |-> 0]
    /\ released = {}
    /\ events = 1

InitDate ==
    /\ diary_settings \in Settings
    /\ diary_data = [kind |-> "absent", year |-> 0]
    /\ now \in Clocks
    /\ \/ \E v \in DateValues : Created(create(EmptyWorld, "date", TRUE, v))
       \/ Created(create(EmptyWorld, "date", FALSE, Today))

NextDate ==
    \/ \E c \in DOMAIN cols, y \in ClientYs : MouseDown(c, y)
    \/ \E y \in ClientYs : MouseMove(y)
    \/ MouseUp
    \/ \E c \in DOMAIN cols : Frame(c)
    \/ \E c \in DOMAIN cols : \E i \in Rows(c) : ItemClick(c, i)
    \/ \E c \in DOMAIN cols, d \in {-1, 1} : Wheel(c, d)
    \/ QuickClick(1)
    \/ ConfirmClick(1)
    \/ CloseClick(1)
    \/ OutsideClick
    \/ ApiClose
    \/ \E k \in 1..Len(timers) : Timer(k)

SpecDate == InitDate /\ [][NextDate]_vars

----------------------------------------------------------------------------
(* Spec: pickers opened and closed, in date and in time mode, their columns  *)
(* committed by clicks and wheel ticks                                     *)

\* the {hour, minute} objects passed as options.value
TimeValues == {[hour |-> 23, minute |-> 58]}

Init ==
    /\ diary_settings = [kind |-> "birthday", year |-> 2023]
    /\ diary_data = [kind |-> "absent", year |-> 0]
    /\ now \in Clocks
    /\ cols = <<>>
    /\ NoPicker

Next ==
    \/ \E v \in DateValues : Open("date", TRUE, v)
    \/ Open("date", FALSE, Today)
    \/ \E v \in TimeValues : Open("time", TRUE, v)
    \/ Open("time", FALSE, TimeNow)
    \/ ApiClose
    \/ OutsideClick
    \/ \E p \in DOMAIN pickers : CloseClick(p)
    \/ \E p \in DOMAIN pickers : ConfirmClick(p)
    \/ \E p \in DOMAIN pickers : QuickClick(p)
    \/ \E c \in DOMAIN cols : \E i \in Rows(c) : ItemClick(c, i)
    \/ \E c \in DOMAIN cols, d \in {-1, 1} : Wheel(c, d)
    \/ \E k \in 1..Len(timers) : Timer(k)

Spec == Init /\ [][Next]_vars

----------------------------------------------------------------------------
(* SpecClose: one time picker, its columns dragged and flung, and closed    *)

\* the state after W.create(...) returned; events counts the input events and
\* API calls delivered after it
Opened(W) ==
    /\ cols = W.cols
    /\ pickers = W.pickers
    /\ activePickerEl = W.active
    /\ timers = W.timers
    /\ docClick = W.docClick
    /\ calls = W.calls
    /\ lastOp = [op |-> "open", pk |-> 1, col |-> 0, arg |-> 0, from |-> 0]
    /\ released = {}
    /\ events = 0

InitClose ==
    /\ diary_settings = [kind |-> "absent", year |-> 0]
    /\ diary_data = [kind |-> "absent", year |-> 0]
    /\ now \in Clocks
    /\ \E v \in TimeValues : Opened(create(EmptyWorld, "time", TRUE, v))

NextClose ==
    \/ \E c \in DOMAIN cols, y \in ClientYs : MouseDown(c, y)
    \/ \E y \in ClientYs : MouseMove(y)
    \/ MouseUp
    \/ \E c \in DOMAIN cols : Frame(c)
    \/ ApiClose
    \/ OutsideClick
    \/ EscapeKey
    \/ \E k \in 1..Len(timers) : Timer(k)

SpecClose == InitClose /\ [][NextClose]_vars

----------------------------------------------------------------------------
(* SpecApi: one stand-alone column created with any start index, under     *)
(* every input and every call of its _api, destroy() included              *)

\* createWheelColumn({items, selectedIndex: i}); lastOp.arg records i
InitApi ==
    /\ \E items \in ItemLists : \E i \in Indices :
           /\ cols = <<NewColumn(items, i, 0, "plain")>>
           /\ lastOp = [NoOp EXCEPT !.arg = i]
    /\ pickers = <<>>
    /\ activePickerEl = 0
    /\ timers = <<>>
    /\ docClick = FALSE
    /\ calls = <<>>
    /\ released = {}
    /\ events = 0
    /\ diary_settings = [kind |-> "absent", year |-> 0]
    /\ diary_data = [kind |-> "absent", year |-> 0]
    /\ now = [y |-> 2024, mon |-> 1, d |-> 29, hour |-> 9, minute |-> 15]

NextApi ==
    \/ NextCol
    \/ Destroy(1)

SpecApi == InitApi /\ [][NextApi]_vars

----------------------------------------------------------------------------
(* SpecDrag: one stand-alone column dragged, released and flung, by touch   *)
(* and by mouse, over short and long distances                             *)

\* clientY values of the pointer events of a drag (whole pixels)
DragYs == ClientYs \cup {300}

NextDrag ==
    \/ \E y \in DragYs : TouchStart(1, y)
    \/ \E y \in DragYs : TouchMove(1, y)
    \/ TouchEnd(1)
    \/ \E y \in DragYs : MouseDown(1, y)
    \/ \E y \in DragYs : MouseMove(y)
    \/ MouseUp
    \/ Frame(1)

SpecDrag == InitCol /\ [][NextDrag]_vars

----------------------------------------------------------------------------
(* SpecYears: date pickers opened over every kind of persisted settings,    *)
(* before and after the store records a birth date                          *)

\* the contents of localStorage 'diary_settings'
StoredSettings ==
    { [kind |-> "absent", year |-> 0], [kind |-> "invalid", year |-> 0],
      [kind |-> "nobirthday", year |-> 0], [kind |-> "unparseable", year |-> 0],
      [kind |-> "birthday", year |-> 2023], [kind |-> "birthday", year |-> 2027] }

\* the years of the birth dates given to DiaryStorage.setBirthDate
BirthYears == {2010, 2022}

\* the rows next to the selected row of column c, where a click lands
Neighbours(c) == {i \in Rows(c) : Abs(i - cols[c].currentIndex) = 1}

InitYears ==
    /\ diary_settings \in StoredSettings
    /\ diary_data = [kind |-> "absent", year |-> 0]
    /\ now \in Clocks
    /\ cols = <<>>
    /\ NoPicker

NextYears ==
    \/ \E y \in BirthYears : SetBirthDate(y)
    \/ Open("date", TRUE, [y |-> 2024, mon |-> 1, d |-> 29])
    \/ Open("date", FALSE, Today)
    \/ \E c \in DOMAIN cols : \E i \in Neighbours(c) : ItemClick(c, i)
    \/ \E p \in DOMAIN pickers : ConfirmClick(p)
    \/ \E p \in DOMAIN pickers : CloseClick(p)
    \/ OutsideClick
    \/ ApiClose
    \/ \E k \in 1..Len(timers) : Timer(k)

SpecYears == InitYears /\ [][NextYears]_vars

\* SpecDragLive: SpecDrag where a requested animation frame is eventually
\* delivered (requestAnimationFrame calls back unless the frame is cancelled)
SpecDragLive == SpecDrag /\ WF_vars(Frame(1))

----------------------------------------------------------------------------
(* Properties of the selector column (SpecCol) *)

\* no drag in progress and no inertia frame pending
Idle(col) == ~col.isDragging /\ ~col.framePending

\* clamp(i, 0, n-1)
Clamp(i, n) == IF i < 0 THEN 0 ELSE IF i > n - 1 THEN n - 1 ELSE i

\* C1: whenever a column is Idle, its offset currentY is exactly
\* -currentIndex * ITEM_HEIGHT, after any sequence of pointer, frame, click, wheel,
\* setIndex and setItems steps.
C1_IdleAligned ==
    \A c \in DOMAIN cols :
        Idle(cols[c]) => cols[c].currentY = -cols[c].currentIndex * ITEM_HEIGHT * Unit

\* an inertia frame has just settled the column on a new index
C1_SettledByInertia ==
    /\ lastOp.op = "frame"
    /\ Idle(cols[1])
    /\ cols[1].currentIndex # lastOp.from
    /\ cols[1].currentY = -cols[1].currentIndex * ITEM_HEIGHT * Unit

\* C2: the committed index of a column with a non-empty list stays in
\* [0, items.length-1] of the current list, and getValue() is an element of it.
C2_IndexInRange ==
    \A c \in DOMAIN cols :
        /\ cols[c].currentIndex \in 0..(Len(cols[c].items) - 1)
        /\ \E k \in 1..Len(cols[c].items) : cols[c].items[k] = getValue(cols[c])

\* setItems has just replaced the list by one too short for the old index
C2_ListShrankBelowIndex ==
    /\ lastOp.op = "setItems"
    /\ lastOp.from > Len(cols[1].items) - 1
    /\ lastOp.arg > Len(cols[1].items) - 1
    /\ cols[1].currentIndex = Len(cols[1].items) - 1

\* C3: after setIndex(i, false), for any integer i, getIndex() is clamp(i, 0, n-1)
\* and getValue() is items[clamp(i, 0, n-1)].
C3_SetIndexClamps ==
    lastOp.op = "setIndex" =>
        LET col == cols[lastOp.col]
            k == Clamp(lastOp.arg, Len(col.items))
        IN getIndex(col) = k /\ getValue(col) = col.items[k + 1]

\* setIndex(i, false) with i < 0 has just moved the column to index 0
C3_NegativeIndexClamped ==
    /\ lastOp.op = "setIndex"
    /\ lastOp.arg < 0
    /\ lastOp.from > 0
    /\ getIndex(cols[1]) = 0

\* the callbacks a step of column c must invoke: onChange(newIndex, items[newIndex])
\* once if the committed index changed, nothing otherwise
ExpectedCalls(c) ==
    IF cols'[c].currentIndex # cols[c].currentIndex
    THEN << [fn |-> "colChange", who |-> c, idx |-> cols'[c].currentIndex, val |-> getValue(cols'[c])] >>
    ELSE <<>>

\* C4: every step of a column invokes its onChange exactly once, with
\* (newIndex, items[newIndex]), when the committed index changed, and not at all
\* when it did not; the call is made inside the step that commits.
C4_NotifyExact == [][calls' = ExpectedCalls(1)]_vars

\* a wheel tick has just changed the index and notified once
C4_WheelNotifiedOnce ==
    /\ lastOp.op = "wheel"
    /\ cols[1].currentIndex # lastOp.from
    /\ calls = << [fn |-> "colChange", who |-> 1, idx |-> cols[1].currentIndex, val |-> getValue(cols[1])] >>

----------------------------------------------------------------------------
(* Properties of the date picker (SpecDate) *)

\* the date selected by the committed indices of the columns cs of a date picker
ShownDate(cs, columns) ==
    [ y   |-> parseInt(getValue(cs[columns[1]])),
      mon |-> parseInt(getValue(cs[columns[2]])) - 1,
      d   |-> parseInt(getValue(cs[columns[3]])) ]

\* the steps by which a user commits an index on a column
UserCommits == {"click", "wheel", "mouseup", "touchend", "frame"}

\* the picker-level callbacks among cs made for picker p
PickerCalls(cs, p, fn) == {k \in 1..Len(cs) : cs[k].fn = fn /\ cs[k].who = p}

\* C5: after open() and after every handler, getValue() of a date picker is the
\* (year, month, day) selected by the committed indices of its columns, and
\* day <= days-in-month(year, month).
C5_CompositeConsistent ==
    \A p \in DOMAIN pickers :
        pickers[p].mode = "date" =>
            /\ pickerGetValue(p) = ShownDate(cols, pickers[p].columns)
            /\ pickerGetValue(p).d <= getDaysInMonth(pickerGetValue(p).y, pickerGetValue(p).mon + 1)

\* the columns of date picker p show a date of the calendar, and it is currentValue
ShowsItsValue(p) ==
    LET shown == ShownDate(cols, pickers[p].columns)
    IN /\ pickers[p].mode = "date"
       /\ pickers[p].currentValue = shown
       /\ cols[pickers[p].columns[3]].items = range(1, getDaysInMonth(shown.y, shown.mon + 1), FALSE)

\* this step is a user commit that changed the year or the month column (k = 1, 2)
\* of picker p
CommitsColumn(p, k) ==
    /\ lastOp'.op \in UserCommits
    /\ lastOp'.col = pickers[p].columns[k]
    /\ cols'[lastOp'.col].currentIndex # cols[lastOp'.col].currentIndex

\* C6: a commit that changes the year or the month of a shown date (y, m, d) leaves
\* the day list 1..days-in-month of the year and month now shown, the committed
\* day min(d, that length), and the other of the two columns unchanged.
C6_DayPreserved ==
    [][\A k \in {1, 2} :
         (ShowsItsValue(1) /\ CommitsColumn(1, k)) =>
            LET before == ShownDate(cols, pickers[1].columns)
                after == ShownDate(cols', pickers[1].columns)
                len == getDaysInMonth(after.y, after.mon + 1)
            IN /\ cols'[pickers[1].columns[3]].items = range(1, len, FALSE)
               /\ after.d = Min(before.d, len)
               /\ (k = 1 => after.mon = before.mon)
               /\ (k = 2 => after.y = before.y)]_vars

\* this step commits the month column of picker 1, showing 2024-02-29, to April
LeapDayToApril ==
    /\ ShowsItsValue(1)
    /\ pickers[1].currentValue = [y |-> 2024, mon |-> 1, d |-> 29]
    /\ CommitsColumn(1, 2)
    /\ cols'[pickers[1].columns[2]].currentIndex = 3

\* C7 as stated: from 2024-02-29, committing the month to April makes the day
\* list 1..30 and the committed day 30, with exactly one change notification.
C7_AprilSelects30 ==
    [][LeapDayToApril =>
         /\ cols'[pickers[1].columns[3]].items = range(1, 30, FALSE)
         /\ ShownDate(cols', pickers[1].columns).d = 30
         /\ Cardinality(PickerCalls(calls', 1, "onChange")) = 1]_vars

\* C7 amended: from 2024-02-29, committing the month to April makes the day list
\* 1..30 and keeps the committed day 29; the month column notifies once, the day
\* column not at all, and the picker's onChange is called once, with 2024-04-29.
C7_AprilKeeps29 ==
    [][LeapDayToApril =>
         /\ cols'[pickers[1].columns[3]].items = range(1, 30, FALSE)
         /\ ShownDate(cols', pickers[1].columns) = [y |-> 2024, mon |-> 3, d |-> 29]
         /\ calls' = << [fn |-> "colChange", who |-> pickers[1].columns[2], idx |-> 3, val |-> Str(4)],
                        [fn |-> "onChange", who |-> 1, idx |-> 0,
                         val |-> [y |-> 2024, mon |-> 3, d |-> 29]] >>]_vars

\* the month column has just been committed from February to April, the year
\* column shows 2024 and the day column 29 of 1..30
C7_FebruaryToApril ==
    /\ lastOp.op \in UserCommits
    /\ lastOp.col = pickers[1].columns[2]
    /\ lastOp.from = 1
    /\ cols[lastOp.col].currentIndex = 3
    /\ ShownDate(cols, pickers[1].columns) = [y |-> 2024, mon |-> 3, d |-> 29]
    /\ Len(cols[pickers[1].columns[3]].items) = 30
    /\ Cardinality(PickerCalls(calls, 1, "onChange")) = 1

\* C9: confirming the open picker calls onConfirm once with the composite value,
\* which is what getValue() returns and what the committed indices of the columns
\* select, and the picker is then no longer the active picker.
C9_ConfirmsShownValue ==
    [][(lastOp'.op = "confirmBtn" /\ activePickerEl = lastOp'.pk) =>
         LET p == lastOp'.pk
         IN /\ calls' = << [fn |-> "onConfirm", who |-> p, idx |-> 0, val |-> pickers'[p].currentValue] >>
            /\ pickers'[p].currentValue = ShownDate(cols', pickers'[p].columns)
            /\ activePickerEl' # p]_vars

----------------------------------------------------------------------------
(* Properties of the picker lifecycle (Spec) *)

\* the steps that are user input on the surface of a card
SurfaceInputs == {"confirmBtn", "quickBtn", "closeBtn", "click", "wheel"}

\* C8: once another picker is open, no user input on a superseded picker's
\* surface invokes that picker's callbacks or closes the open picker.
C8_SupersededIsInert ==
    [][(/\ lastOp'.op \in SurfaceInputs
        /\ activePickerEl # 0
        /\ activePickerEl # lastOp'.pk) =>
         /\ PickerCalls(calls', lastOp'.pk, "onChange") = {}
         /\ PickerCalls(calls', lastOp'.pk, "onConfirm") = {}
         /\ activePickerEl' = activePickerEl]_vars

\* the steps that close a picker without confirming it
Closings == {"closeBtn", "outsideClick", "close", "open"}

\* C10: closing a picker by its close button, an outside click, close() or the
\* opening of another picker never invokes onConfirm.
C10_CloseNeverConfirms ==
    [][lastOp'.op \in Closings => \A k \in 1..Len(calls') : calls'[k].fn # "onConfirm"]_vars

\* an outside click has just closed time picker 1, whose hour column had been
\* changed, and no callback ran
C10_ClosedAfterChange ==
    /\ lastOp.op = "outsideClick"
    /\ lastOp.pk = 1
    /\ activePickerEl = 0
    /\ pickers[1].mode = "time"
    /\ pickers[1].currentValue.hour \notin {23, now.hour}
    /\ calls = <<>>

----------------------------------------------------------------------------
(* Properties of closing and disposal *)

\* column c belongs to a picker that close() has closed
Closed(c) == cols[c].owner # 0 /\ activePickerEl # cols[c].owner

\* the callbacks among cs made by column c or by the picker that owns it
CallsOf(cs, c) ==
    {k \in 1..Len(cs) : \/ cs[k].fn = "colChange" /\ cs[k].who = c
                        \/ cs[k].fn = "onChange" /\ cs[k].who = cols[c].owner}

\* C11: once close() has returned, no inertia frame of a column of the closed
\* picker runs, and no step makes such a column or its picker invoke onChange,
\* whether the picker was closed during an inertial settle or during a drag.
C11_CloseCancels ==
    [][\A c \in DOMAIN cols :
         Closed(c) => /\ ~(lastOp'.op = "frame" /\ lastOp'.col = c)
                      /\ CallsOf(calls', c) = {}]_vars

\* destroy() has been called on column c: only destroy() removes its document
\* listeners
Destroyed(c) == ~cols[c].docListeners

\* C12: after destroy() has been called on a column, no event delivered to it
\* (touch, mouse, wheel, item click, animation frame, setIndex, setItems)
\* invokes its onChange.
C12_DisposedIsSilent ==
    [][\A c \in DOMAIN cols :
         Destroyed(c) => \A k \in 1..Len(calls') :
                             ~(calls'[k].fn = "colChange" /\ calls'[k].who = c)]_vars

\* C13: in every column state, calling destroy() twice leaves the column as
\* calling it once does, and no call of destroy() fires a change notification.
C13_DestroyIdempotent ==
    [][/\ \A c \in DOMAIN cols : destroy(destroy(cols[c])) = destroy(cols[c])
       /\ \A c \in DOMAIN cols' : destroy(destroy(cols'[c])) = destroy(cols'[c])
       /\ lastOp'.op = "destroy" =>
              /\ calls' = <<>>
              /\ (lastOp.op = "destroy" => cols' = cols)]_vars

\* destroy() has just been called, for the first time, on a column whose inertia
\* frame was pending: the frame is cancelled and the column is left between rows
C13_DestroyedInFlight ==
    /\ lastOp.op = "destroy"
    /\ lastOp.arg = 0
    /\ cols[1].animationId
    /\ ~cols[1].framePending
    /\ ~cols[1].docListeners
    /\ cols[1].currentY # -cols[1].currentIndex * ITEM_HEIGHT * Unit

\* C20: a column created with a non-empty list and any integer start index is at
\* rest on clamp(startIndex, 0, n-1): getIndex() is in range and getValue() is an
\* item of the list.
C20_InitClamps ==
    lastOp.op = "init" =>
        LET col == cols[1]
            k == Clamp(lastOp.arg, Len(col.items))
        IN /\ getIndex(col) = k
           /\ getValue(col) = col.items[k + 1]
           /\ col.currentY = -k * ITEM_HEIGHT * Unit

\* C14: whenever a picker is open, an Escape key press tears it down (it stops
\* being the active picker, and the removal of its card, which disposes its
\* columns, is scheduled) without invoking onConfirm.
C14_EscapeCloses ==
    [][(lastOp'.op = "escape" /\ activePickerEl # 0) =>
         /\ activePickerEl' = 0
         /\ \E k \in 1..Len(timers') : timers'[k] = [kind |-> "remove", pk |-> activePickerEl]
         /\ \A k \in 1..Len(calls') : calls'[k].fn # "onConfirm"]_vars

----------------------------------------------------------------------------
(* Properties of the quick action (Spec) *)

\* the columns cs of picker p, of state ps, show the clock's date or time
ShowsNow(cs, ps, p) ==
    LET columns == ps[p].columns
    IN IF ps[p].mode = "date"
       THEN /\ ShownDate(cs, columns) = Today
            /\ cs[columns[3]].items = range(1, getDaysInMonth(now.y, now.mon + 1), FALSE)
       ELSE /\ parseInt(getValue(cs[columns[1]])) = now.hour
            /\ parseInt(getValue(cs[columns[2]])) = now.minute

\* C15: one activation of the quick action of the open picker leaves every column
\* committed to the clock's date or time, the day list 1..days-in-month(now), and
\* invokes the picker's onChange exactly once, with that date or time.
C15_QuickFiresOnce ==
    [][(lastOp'.op = "quickBtn" /\ activePickerEl = lastOp'.pk) =>
         LET p == lastOp'.pk
             made == PickerCalls(calls', p, "onChange")
         IN /\ ShowsNow(cols', pickers', p)
            /\ Cardinality(made) = 1
            /\ \A k \in made :
                   calls'[k].val = IF pickers[p].mode = "date" THEN Today ELSE TimeNow]_vars

----------------------------------------------------------------------------
(* Properties of dragging and flinging (SpecDrag, SpecCol) *)

\* the offset of the last item of column col
MinY(col) == -(Len(col.items) - 1) * ITEM_HEIGHT * Unit

\* C16: a pointer released while the dragged offset is beyond the top boundary
\* (offset > 0) settles the column on index 0, and one released beyond the bottom
\* boundary settles it on index n-1, whatever the velocity at the release.
C16_ReleaseSettlesOnBoundary ==
    \A r \in released :
        Idle(cols[r.col]) =>
            /\ (r.y > 0 => cols[r.col].currentIndex = 0)
            /\ (r.y < MinY(cols[r.col]) => cols[r.col].currentIndex = Len(cols[r.col].items) - 1)

\* this step is a touchmove or mousemove that reaches handleMove of a dragged
\* column c
MovesDragged(c) ==
    /\ cols[c].isDragging
    /\ \/ lastOp'.op = "touchmove" /\ lastOp'.col = c
       \/ lastOp'.op = "mousemove" /\ cols[c].docListeners

\* C17: during a drag the offset shown beyond either boundary is 0.3 times the
\* raw overshoot, and it stays strictly inside (-(n-1)*36 - 72, +72).
C17_RubberBandBound ==
    [][\A c \in DOMAIN cols :
         MovesDragged(c) =>
            LET raw == lastOp'.arg * Unit - cols[c].startY
                shown == cols'[c].currentY
            IN /\ (raw > 0 => shown = Scale(raw, 3, 10))
               /\ (raw < MinY(cols[c]) => shown = MinY(cols[c]) + Scale(raw - MinY(cols[c]), 3, 10))
               /\ shown < 2 * ITEM_HEIGHT * Unit
               /\ shown > MinY(cols[c]) - 2 * ITEM_HEIGHT * Unit]_vars

\* this step is an inertia tick of column c: a release faster than the fling
\* threshold, or an animation frame
InertiaTick(c) ==
    \/ c \in Ended(lastOp') /\ Abs(cols[c].velocity) > 2 * Unit
    \/ lastOp'.op = "frame" /\ lastOp'.col = c

\* the offset an inertia tick of column col moves to
TickOffset(col) == col.currentY + Scale(col.velocity, 92, 100)

\* C18: an inertia tick that carries a column flung towards the end of its list
\* past the last item's offset commits index n-1 and leaves the column at rest
\* there; one that carries it past the first item's offset commits index 0.
C18_NoWraparound ==
    [][\A c \in DOMAIN cols :
         InertiaTick(c) =>
            /\ (cols[c].velocity < 0 /\ TickOffset(cols[c]) < MinY(cols[c])) =>
                   /\ cols'[c].currentIndex = Len(cols[c].items) - 1
                   /\ cols'[c].currentY = MinY(cols[c])
                   /\ Idle(cols'[c])
            /\ (cols[c].velocity > 0 /\ TickOffset(cols[c]) > 0) =>
                   /\ cols'[c].currentIndex = 0
                   /\ cols'[c].currentY = 0
                   /\ Idle(cols'[c])]_vars

\* an animation frame of a fling towards the end has just carried the column past
\* its last item and committed it there, from an earlier index
C18_FlungPastEnd ==
    /\ lastOp.op = "frame"
    /\ cols[1].velocity < -Unit \div 2
    /\ Len(cols[1].items) > 1
    /\ lastOp.from < Len(cols[1].items) - 1
    /\ cols[1].currentIndex = Len(cols[1].items) - 1
    /\ Idle(cols[1])

\* C19: a wheel tick d received in any interaction state sets the committed index
\* to clamp(previous + d, 0, n-1) and interrupts an inertial settle in flight: the
\* animation frame that follows it neither moves the offset nor commits another
\* index.
C19_WheelInterruptsSettle ==
    [][\A c \in DOMAIN cols :
         /\ (lastOp'.op = "wheel" /\ lastOp'.col = c) =>
                cols'[c].currentIndex = Clamp(cols[c].currentIndex + lastOp'.arg, Len(cols[c].items))
         /\ (lastOp.op = "wheel" /\ lastOp.col = c /\ lastOp'.op = "frame" /\ lastOp'.col = c) =>
                /\ cols'[c].currentY = cols[c].currentY
                /\ cols'[c].currentIndex = cols[c].currentIndex]_vars

----------------------------------------------------------------------------
(* Properties of setItems (SpecCol) *)

\* C21: after setItems(newItems, p) with a non-empty list and p >= 0, the item
\* list is newItems, the committed index is min(p, newItems.length - 1), the
\* offset is aligned to it without animation, and onChange is called (once, with
\* that index and its item) only if the index differs from the one before.
C21_SetItemsIndexRule ==
    [][\A newItems \in ItemLists, p \in Indices :
         (p >= 0 /\ SetItems(1, newItems, p)) =>
            LET k == Min(p, Len(newItems) - 1)
            IN /\ cols'[1].items = newItems
               /\ cols'[1].currentIndex = k
               /\ cols'[1].currentY = -k * ITEM_HEIGHT * Unit
               /\ ~cols'[1].animate
               /\ calls' = IF k # cols[1].currentIndex
                           THEN << [fn |-> "colChange", who |-> 1, idx |-> k, val |-> newItems[k + 1]] >>
                           ELSE <<>>]_vars

\* setItems has just moved the column to the preferred index of a new list, and
\* notified
C21_MovedToPreferred ==
    /\ lastOp.op = "setItems"
    /\ lastOp.arg >= 0
    /\ lastOp.arg < Len(cols[1].items) - 1
    /\ lastOp.from # lastOp.arg
    /\ cols[1].currentIndex = lastOp.arg
    /\ Len(calls) = 1

\* the offset handleMove shows for a pointer at clientY y, for drag origin startY
\* and a list of n items
Tracked(y, startY, n) ==
    LET raw == y * Unit - startY
        minY == -(n - 1) * ITEM_HEIGHT * Unit
    IN IF raw > 0 THEN Scale(raw, 3, 10)
       ELSE IF raw < minY THEN minY + Scale(raw - minY, 3, 10)
       ELSE raw

\* the step after this state is the first one after a setItems call made while
\* column 1 was being dragged
DraggedOverSetItems == lastOp.op = "setItems" /\ cols[1].isDragging

\* C22: setItems called during a drag leaves the column dragging with its drag
\* origin; the next pointer move tracks the pointer from that origin, against the
\* new list; the next release settles by the release rule against the new list.
C22_SetItemsKeepsDrag ==
    [][/\ (lastOp'.op = "setItems" /\ cols[1].isDragging) =>
              /\ cols'[1].isDragging
              /\ cols'[1].startY = cols[1].startY
              /\ cols'[1].lastY = cols[1].lastY
              /\ cols'[1].velocity = cols[1].velocity
       /\ (DraggedOverSetItems /\ MovesDragged(1)) =>
              /\ cols'[1].isDragging
              /\ cols'[1].currentY = Tracked(lastOp'.arg, cols[1].startY, Len(cols[1].items))
       /\ (DraggedOverSetItems /\ 1 \in Ended(lastOp')) =>
              LET n == Len(cols[1].items)
                  slow == Abs(cols[1].velocity) <= 2 * Unit
                  stop == IF slow THEN cols[1].currentY ELSE TickOffset(cols[1])
                  k == Clamp(getIndexFromPosition(stop), n)
              IN /\ ~cols'[1].isDragging
                 /\ cols'[1].items = cols[1].items
                 /\ \/ /\ Idle(cols'[1])
                       /\ cols'[1].currentIndex = k
                       /\ cols'[1].currentY = -k * ITEM_HEIGHT * Unit
                    \/ /\ ~slow
                       /\ cols'[1].framePending
                       /\ cols'[1].currentY = stop
                       /\ stop <= 0 /\ stop >= MinY(cols[1])]_vars

\* setItems has just been called on a column in mid-drag, replaced its list by a
\* shorter one and moved its committed index
C22_ReplacedDuringDrag ==
    /\ lastOp.op = "setItems"
    /\ cols[1].isDragging
    /\ cols[1].velocity # 0
    /\ lastOp.from > Len(cols[1].items) - 1
    /\ cols[1].currentIndex = Len(cols[1].items) - 1

----------------------------------------------------------------------------
(* Properties of the year list (SpecYears) *)

\* the first year the list must have: the birth year when the settings hold one
\* that is not later than next year, otherwise the default
FirstYear ==
    IF diary_settings.kind = "birthday" /\ diary_settings.year <= now.y + 1
    THEN diary_settings.year
    ELSE 2000

\* C23: for every content of the persisted settings, the year list of a date
\* picker is the non-empty list of consecutive years from the valid birth year,
\* or from 2000, to current-year+1.
C23_YearListNeverEmpty ==
    \A p \in DOMAIN pickers :
        pickers[p].mode = "date" =>
            LET years == cols[pickers[p].columns[1]].items
            IN /\ years # <<>>
               /\ years = range(FirstYear, now.y + 1, FALSE)

\* C24: a date picker opened after DiaryStorage.setBirthDate(d) has a year column
\* whose first item is the year of d, and no picker operation writes to storage.
C24_BirthDateSeedsYears ==
    [][/\ (lastOp'.op = "open" /\ diary_data.kind = "birthDate") =>
              LET years == cols'[pickers'[lastOp'.pk].columns[1]].items
              IN years # <<>> /\ years[1] = Str(diary_data.year)
       /\ lastOp'.op # "setBirthDate" =>
              /\ diary_settings' = diary_settings
              /\ diary_data' = diary_data]_vars

----------------------------------------------------------------------------
(* Properties of the picker lifecycle, continued (Spec) *)

\* C25: whenever no picker is active and every pending timer has fired, the
\* document click listener and the document mousemove/mouseup listeners of every
\* column are detached, for every interleaving of open, close and timers.
C25_ListenersDetached ==
    (activePickerEl = 0 /\ timers = <<>>) =>
        /\ ~docClick
        /\ \A c \in DOMAIN cols : ~cols[c].docListeners

----------------------------------------------------------------------------
(* Properties of the drag and of settling (SpecCol, SpecDrag) *)

PointerDowns == {"touchstart", "mousedown"}
PointerMoves == {"touchmove", "mousemove"}

\* the steps that are input events or API calls on a column, other than the
\* pointer-down and the release
OtherInputs == {"touchmove", "mousemove", "click", "wheel", "setIndex", "setIndexAnimated", "setItems"}

\* C26 amended: after a pointer-down on a column in any state, no inertia frame
\* is pending and the velocity is 0; while the drag lasts no inertia frame is
\* pending or runs, so the offset and the committed index change only in
\* response to input events (pointer moves, wheel ticks, clicks, setIndex and
\* setItems calls).
C26_NoTickDuringDrag ==
    [][\A c \in DOMAIN cols :
         /\ (lastOp'.op \in PointerDowns /\ lastOp'.col = c) =>
                /\ cols'[c].isDragging
                /\ ~cols'[c].framePending
                /\ cols'[c].velocity = 0
                /\ cols'[c].currentY = cols[c].currentY
         /\ cols'[c].isDragging => ~cols'[c].framePending
         /\ (cols[c].isDragging /\ cols'[c].isDragging) =>
                /\ ~(lastOp'.op = "frame" /\ lastOp'.col = c)
                /\ (\/ cols'[c].currentIndex # cols[c].currentIndex
                    \/ cols'[c].currentY # cols[c].currentY) => lastOp'.op \in OtherInputs]_vars

\* C26 as stated: after a pointer-down on a column in any state, no inertia frame
\* is pending and the velocity is 0; while the drag lasts no inertia frame runs or
\* is pending, and the offset and the committed index change only by pointer
\* moves.
C26_DragCancelsAnimation ==
    [][\A c \in DOMAIN cols :
         /\ (lastOp'.op \in PointerDowns /\ lastOp'.col = c) =>
                /\ cols'[c].isDragging
                /\ ~cols'[c].framePending
                /\ cols'[c].velocity = 0
                /\ cols'[c].currentY = cols[c].currentY
         /\ cols'[c].isDragging => ~cols'[c].framePending
         /\ (cols[c].isDragging /\ cols'[c].isDragging) =>
                /\ ~(lastOp'.op = "frame" /\ lastOp'.col = c)
                /\ cols'[c].currentIndex = cols[c].currentIndex
                /\ cols'[c].currentY # cols[c].currentY => lastOp'.op \in PointerMoves]_vars

\* a pointer-down has just caught the column in mid-inertia: it is dragging, no
\* frame is pending, and its offset is between whole pixels, where only the
\* decay by 0.92 of an inertia tick leaves it
C26_CaughtMidInertia ==
    /\ lastOp.op \in PointerDowns
    /\ cols[1].isDragging
    /\ ~cols[1].framePending
    /\ cols[1].velocity = 0
    /\ cols[1].currentY % 100 # 0

\* column col is at rest on index k
RestsOn(col, k) ==
    /\ Idle(col)
    /\ col.currentIndex = k
    /\ col.currentY = -k * ITEM_HEIGHT * Unit

\* what one inertia tick must make of column old: the velocity times 0.92, the
\* offset advanced by it; then rest on the clamped nearest index if the offset has
\* left [-(n-1)*36, 0] or |velocity| < 0.5, and otherwise one more frame
TickRule(old, new) ==
    LET v == Scale(old.velocity, 92, 100)
        stop == old.currentY + v
    IN /\ new.velocity = v
       /\ IF stop > 0 \/ stop < MinY(old) \/ 2 * Abs(v) < Unit
          THEN RestsOn(new, Clamp(getIndexFromPosition(stop), Len(old.items)))
          ELSE new.framePending /\ ~new.isDragging /\ new.currentY = stop

\* C27: a release with |velocity| <= 2 commits the clamped round(-offset/36) at
\* once and schedules no frame; a release with |velocity| > 2 and every animation
\* frame follow the tick rule; and a pending frame always leads to a state with
\* no frame pending, so the column settles after finitely many ticks.
C27_SettlingTerminates ==
    /\ [][/\ 1 \in Ended(lastOp') =>
                IF Abs(cols[1].velocity) <= 2 * Unit
                THEN /\ RestsOn(cols'[1], Clamp(getIndexFromPosition(cols[1].currentY), Len(cols[1].items)))
                     /\ cols'[1].velocity = cols[1].velocity
                ELSE TickRule(cols[1], cols'[1])
          /\ lastOp'.op = "frame" => TickRule(cols[1], cols'[1])]_vars
    /\ (cols[1].framePending ~> ~cols[1].framePending)

\* animation frames have just brought a released column to rest because its
\* velocity decayed below 0.5, inside the list
C27_SettledByDecay ==
    /\ lastOp.op = "frame"
    /\ released # {}
    /\ Idle(cols[1])
    /\ cols[1].velocity # 0
    /\ 2 * Abs(cols[1].velocity) < Unit
    /\ lastOp.from # cols[1].currentIndex

----------------------------------------------------------------------------
(* Properties of the picker's notifications and values (SpecDate, Spec) *)

\* C28: a single user commit on one column of a picker (a settle, click or wheel
\* tick that changes that column's index) invokes the picker's onChange exactly
\* once, also when a year or month commit moves the day column.
C28_OneNotificationPerCommit ==
    [][\A p \in DOMAIN pickers : \A k \in DOMAIN pickers[p].columns :
         CommitsColumn(p, k) => Cardinality(PickerCalls(calls', p, "onChange")) = 1]_vars

\* C29: the Date or {hour, minute} object passed as value to open keeps its
\* contents through every picker operation.
C29_CallerValueUntouched ==
    [][\A p \in DOMAIN pickers : pickers'[p].value = pickers[p].value]_vars

\* C30: no step invokes a picker's onConfirm more than once, and none invokes it
\* after the picker has been closed (by confirm, close, an outside click or the
\* opening of another picker), so it is invoked at most once per picker.
C30_ConfirmOnceWhileOpen ==
    [][\A p \in DOMAIN pickers :
         LET made == Cardinality(PickerCalls(calls', p, "onConfirm"))
         IN /\ made <= 1
            /\ made = 1 => activePickerEl = p]_vars

====
